---- MODULE Spec2Model ----
(***************************************************************************)
(* notion-sync: the nag orchestrator (event-nagger script) and the         *)
(* calendar sync (sync-calendar.js) over one shared event store.           *)
(*                                                                         *)
(* The store, the messaging API and the calendar API are external: each    *)
(* call either succeeds or throws, chosen nondeterministically.  One       *)
(* invocation of a script is one pass: a query, then one step per record   *)
(* of the query result, in the order the store returned them.              *)
(*                                                                         *)
(* Optional values (a property that may be null/undefined) are sequences   *)
(* of length 0 or 1: <<>> is absent, <<v>> is present with value v.  For a   *)
(* date, <<>> also stands for a value that new Date() cannot parse.        *)
(* Times are milliseconds since the epoch of the model; the clock starts   *)
(* at TickMs and moves in steps of TickMs between invocations.             *)
(***************************************************************************)
EXTENDS Integers, Sequences, FiniteSets, TLC

\* ------------------------------------------------------------------ bounds
MaxTicks == 3          \* the clock runs from TickMs to MaxTicks * TickMs
MaxSent == 2           \* messages sent per record over a behaviour
MaxCal == 2            \* calendar entries created over a behaviour
LiveTicks == 14        \* the clock of the give-up run, in steps of TickMs
LiveSent == 6          \* messages sent per record in the give-up run

\* ------------------------------------------------------- program constants
MaxAttempts == 5                       \* if (nagCount >= 5)
OneHourMs == 60 * 60 * 1000            \* Date.now() - 60 * 60 * 1000
TwoHoursMs == 2 * 60 * 60 * 1000       \* Date.now() - 2 * 60 * 60 * 1000
TickMs == 60 * 60 * 1000               \* granularity of the model's clock

Recs == {"e1", "e2"}                   \* page ids of the store

rotation == <<"winter", "summer", "rav">>

VARIABLES
    store,       \* the external store: page id -> record
    now,         \* Date.now()
    pc,          \* "idle" | "loop" | "done" | "aborted" (process.exit(1))
    events,      \* the query result of the running / last pass: Seq(page id)
    snap,        \* the records as returned by that query
    idx,         \* position of the for-loop in events
    sent,        \* history: messages delivered per record
    lastMsg,     \* history: the last message delivered per record
    decision,    \* history: shouldNagNow's result per record in this pass
    sendFailed,  \* history: records whose sendSlackDM failed in this pass
    syncFailed,  \* history: records whose create / write-back failed in this pass
    processed,   \* history: records the loop body ran for in this pass
    calendar,    \* the external calendar: Seq of created entries
    edited,      \* history: records an editor changed between query and loop body
    input,       \* argument of the pure function under check
    output       \* its result

vars == <<store, now, pc, events, snap, idx, sent, lastMsg, decision,
          sendFailed, syncFailed, processed, calendar, edited, input, output>>

\* ------------------------------------------------------------ pure helpers

\* props['Nag Count']?.number || 0
NumberOr0(opt) == IF opt = <<>> THEN 0 ELSE opt[1]

\* props['Date & Time']?.date?.start?.includes('T')
hasTime(event) == event.start = "datetime"

TruthyEmptyCounts(text) == text # "absent"

\* props[...]?.rich_text?.[0]?.plain_text  (absent and "" are both falsy)
Truthy(text) == text \notin {"absent", ""}

isMissingInfo(event) ==
    ~hasTime(event) \/ ~Truthy(event.location) \/ ~Truthy(event.description)

getMissingFields(event) ==
    (IF ~hasTime(event) THEN <<"time">> ELSE <<>>)
    \o (IF ~Truthy(event.location) THEN <<"location">> ELSE <<>>)
    \o (IF ~Truthy(event.description) THEN <<"description">> ELSE <<>>)

\* new Date(value) < new Date(ms): a value that does not parse as a date
\* gives an Invalid Date, and every comparison with it is false
DateLt(value, ms) == value # <<>> /\ value[1] < ms

getNextPersonOffByOne(nagCount) == rotation[((nagCount + 1) % 3) + 1]

getNextPerson(nagCount) == rotation[(nagCount % 3) + 1]

\* the filter of notion.databases.query plus the isMissingInfo filter
NeedsNagNoMissingFilter(event) ==
    /\ event.status = "Scheduled"
    /\ event.nagStatus \in {"", "Pending"}

NeedsNag(event) ==
    /\ event.status = "Scheduled"
    /\ event.nagStatus \in {"", "Pending"}
    /\ isMissingInfo(event)

shouldNagNowFirstLe(event, nowMs) ==
    LET nagCount == NumberOr0(event.nagCount) IN
    IF nagCount >= MaxAttempts THEN [should |-> FALSE, reason |-> "max_attempts"]
    ELSE IF nagCount = 0 THEN
        IF event.lastEdited # <<>> /\ event.lastEdited[1] <= nowMs - OneHourMs
        THEN [should |-> TRUE, reason |-> "first_nag"]
        ELSE [should |-> FALSE, reason |-> "too_soon"]
    ELSE IF event.lastNagged # <<>> THEN
        IF DateLt(event.lastNagged, nowMs - TwoHoursMs)
        THEN [should |-> TRUE, reason |-> "follow_up"]
        ELSE [should |-> FALSE, reason |-> "too_soon"]
    ELSE [should |-> TRUE, reason |-> "unknown_state"]

shouldNagNowFollowLe(event, nowMs) ==
    LET nagCount == NumberOr0(event.nagCount) IN
    IF nagCount >= MaxAttempts THEN [should |-> FALSE, reason |-> "max_attempts"]
    ELSE IF nagCount = 0 THEN
        IF DateLt(event.lastEdited, nowMs - OneHourMs)
        THEN [should |-> TRUE, reason |-> "first_nag"]
        ELSE [should |-> FALSE, reason |-> "too_soon"]
    ELSE IF event.lastNagged # <<>> THEN
        IF event.lastNagged[1] <= nowMs - TwoHoursMs
        THEN [should |-> TRUE, reason |-> "follow_up"]
        ELSE [should |-> FALSE, reason |-> "too_soon"]
    ELSE [should |-> TRUE, reason |-> "unknown_state"]

shouldNagNowNoBackoff(event, nowMs) ==
    LET nagCount == NumberOr0(event.nagCount) IN
    IF nagCount >= MaxAttempts THEN [should |-> FALSE, reason |-> "max_attempts"]
    ELSE IF nagCount = 0 THEN
        IF DateLt(event.lastEdited, nowMs - OneHourMs)
        THEN [should |-> TRUE, reason |-> "first_nag"]
        ELSE [should |-> FALSE, reason |-> "too_soon"]
    ELSE [should |-> TRUE, reason |-> "follow_up"]

shouldNagNowFailClosed(event, nowMs) ==
    LET nagCount == NumberOr0(event.nagCount) IN
    IF nagCount >= MaxAttempts THEN [should |-> FALSE, reason |-> "max_attempts"]
    ELSE IF nagCount = 0 THEN
        IF DateLt(event.lastEdited, nowMs - OneHourMs)
        THEN [should |-> TRUE, reason |-> "first_nag"]
        ELSE [should |-> FALSE, reason |-> "too_soon"]
    ELSE IF event.lastNagged # <<>> THEN
        IF DateLt(event.lastNagged, nowMs - TwoHoursMs)
        THEN [should |-> TRUE, reason |-> "follow_up"]
        ELSE [should |-> FALSE, reason |-> "too_soon"]
    ELSE [should |-> FALSE, reason |-> "too_soon"]

shouldNagNow(event, nowMs) ==
    LET nagCount == NumberOr0(event.nagCount) IN
    IF nagCount >= MaxAttempts THEN [should |-> FALSE, reason |-> "max_attempts"]
    ELSE IF nagCount = 0 THEN
        IF DateLt(event.lastEdited, nowMs - OneHourMs)
        THEN [should |-> TRUE, reason |-> "first_nag"]
        ELSE [should |-> FALSE, reason |-> "too_soon"]
    ELSE IF event.lastNagged # <<>> THEN
        IF DateLt(event.lastNagged, nowMs - TwoHoursMs)
        THEN [should |-> TRUE, reason |-> "follow_up"]
        ELSE [should |-> FALSE, reason |-> "too_soon"]
    ELSE [should |-> TRUE, reason |-> "unknown_state"]

buildNagMessageCountAsAttempt(event, person) ==
    [to |-> person,
     missing |-> getMissingFields(event),
     attempt |-> NumberOr0(event.nagCount)]

\* the parts of the message text that depend on the record
buildNagMessage(event, person) ==
    [to |-> person,
     missing |-> getMissingFields(event),
     attempt |-> NumberOr0(event.nagCount) + 1]

\* the orders in which the store may return a set of pages
RECURSIVE Orderings(_)
Orderings(S) ==
    IF S = {} THEN {<<>>}
    ELSE UNION {{<<a>> \o s : s \in Orderings(S \ {a})} : a \in S}

\* -------------------------------------------------------------- the store

\* notion.pages.update(page_id, properties): only the named properties change
PagesUpdate(st, id, props) ==
    [st EXCEPT ![id] = [f \in DOMAIN st[id] |->
                            IF f \in DOMAIN props THEN props[f] ELSE st[id][f]]]

\* the properties updateNagStatus writes
NagStatusProps(person, nagCount, nowMs) ==
    [nagCount |-> <<nagCount>>,
     lastNagged |-> <<nowMs>>,
     nagStatus |-> "Pending",
     askedWho |-> person]

NoMsg == [to |-> "", missing |-> <<>>, attempt |-> 0]
NoDecision == [should |-> FALSE, reason |-> "", at |-> 0]

\* records the nag script may find in the store
NagRecords ==
    [status : {"Scheduled", "Approved"},
     nagStatus : {"", "Pending", "Gave Up"},
     nagCount : {<<>>} \cup {<<n>> : n \in 0..MaxAttempts},
     lastNagged : {<<>>, <<0>>},
     lastEdited : {<<>>, <<0>>, <<TickMs>>},
     start : {"date", "datetime"},
     location : {"absent", "hall"},
     description : {"text"},
     askedWho : {""},
     calendarId : {<<>>},
     notes : {""}]

HistoryInit ==
    /\ now = TickMs
    /\ pc = "idle"
    /\ events = <<>>
    /\ idx = 1
    /\ sent = [r \in Recs |-> 0]
    /\ lastMsg = [r \in Recs |-> NoMsg]
    /\ decision = [r \in Recs |-> NoDecision]
    /\ sendFailed = {}
    /\ syncFailed = {}
    /\ processed = {}
    /\ calendar = <<>>
    /\ edited = {}
    /\ input = <<>>
    /\ output = <<>>

\* the other record of the batch: a nag candidate at each stage of its life
NagPeers ==
    [status : {"Scheduled"},
     nagStatus : {"", "Pending"},
     nagCount : {<<0>>, <<4>>, <<MaxAttempts>>},
     lastNagged : {<<0>>},
     lastEdited : {<<0>>},
     start : {"date"},
     location : {"hall"},
     description : {"text"},
     askedWho : {""},
     calendarId : {<<>>},
     notes : {""}]

Init ==
    /\ store \in {[r \in Recs |-> IF r = "e1" THEN a ELSE b] :
                      a \in NagRecords, b \in NagPeers}
    /\ snap = store
    /\ HistoryInit

\* ------------------------------------------------------- nag orchestrator

cur == events[idx]
ev == snap[cur]

\* the for-loop moves to the next record, or the pass completes
Advance ==
    /\ idx' = idx + 1
    /\ pc' = IF idx + 1 > Len(events) THEN "done" ELSE "loop"
    /\ processed' = processed \cup {cur}

\* an exception reaches the outer catch of main: process.exit(1)
Abort ==
    /\ idx' = idx
    /\ pc' = "aborted"
    /\ processed' = processed \cup {cur}

\* time passes between invocations
Tick ==
    /\ pc # "loop"
    /\ now < MaxTicks * TickMs
    /\ now' = now + TickMs
    /\ UNCHANGED <<store, pc, events, snap, idx, sent, lastMsg, decision,
                   sendFailed, syncFailed, processed, calendar,
                   edited, input, output>>

\* main: queryEventsNeedingNag succeeds
NagQuery ==
    /\ pc # "loop"
    /\ \E order \in Orderings({r \in Recs : NeedsNag(store[r])}) :
          /\ events' = order
          /\ pc' = IF order = <<>> THEN "done" ELSE "loop"
    /\ snap' = store
    /\ idx' = 1
    /\ decision' = [r \in Recs |-> NoDecision]
    /\ sendFailed' = {}
    /\ processed' = {}
    /\ edited' = {}
    /\ UNCHANGED <<store, now, sent, lastMsg, syncFailed, calendar,
                   input, output>>

\* main: the query throws, the outer catch exits
NagQueryFail ==
    /\ pc # "loop"
    /\ events' = <<>>
    /\ pc' = "aborted"
    /\ snap' = store
    /\ idx' = 1
    /\ decision' = [r \in Recs |-> NoDecision]
    /\ sendFailed' = {}
    /\ processed' = {}
    /\ edited' = {}
    /\ UNCHANGED <<store, now, sent, lastMsg, syncFailed, calendar,
                   input, output>>

Decide == shouldNagNow(ev, now)

Decided == decision' = [decision EXCEPT ![cur] = [should |-> Decide.should,
                                                  reason |-> Decide.reason,
                                                  at |-> now]]

NagSkipTouches ==
    /\ pc = "loop"
    /\ ~Decide.should /\ Decide.reason # "max_attempts"
    /\ Decided
    /\ store' = PagesUpdate(store, cur, [nagStatus |-> "Pending"])
    /\ Advance
    /\ UNCHANGED <<now, events, snap, sent, lastMsg, sendFailed,
                   syncFailed, calendar, edited, input, output>>

\* loop body: not due, reason too_soon: continue
NagSkip ==
    /\ pc = "loop"
    /\ ~Decide.should /\ Decide.reason # "max_attempts"
    /\ Decided
    /\ Advance
    /\ UNCHANGED <<store, now, events, snap, sent, lastMsg, sendFailed,
                   syncFailed, calendar,
                   edited, input, output>>

NagGiveUpResetsCount ==
    /\ pc = "loop"
    /\ ~Decide.should /\ Decide.reason = "max_attempts"
    /\ Decided
    /\ store' = PagesUpdate(store, cur,
                    [nagStatus |-> "Gave Up", nagCount |-> <<0>>])
    /\ Advance
    /\ UNCHANGED <<now, events, snap, sent, lastMsg, sendFailed, syncFailed,
                   calendar, edited, input, output>>

\* loop body: max_attempts, the "Gave Up" update succeeds
NagGiveUp ==
    /\ pc = "loop"
    /\ ~Decide.should /\ Decide.reason = "max_attempts"
    /\ Decided
    /\ store' = PagesUpdate(store, cur, [nagStatus |-> "Gave Up"])
    /\ Advance
    /\ UNCHANGED <<now, events, snap, sent, lastMsg, sendFailed, syncFailed,
                   calendar,
                   edited, input, output>>

\* loop body: max_attempts, the "Gave Up" update throws; it is outside the
\* inner try, so the exception reaches the outer catch
NagGiveUpFail ==
    /\ pc = "loop"
    /\ ~Decide.should /\ Decide.reason = "max_attempts"
    /\ Decided
    /\ Abort
    /\ UNCHANGED <<store, now, events, snap, sent, lastMsg, sendFailed,
                   syncFailed, calendar,
                   edited, input, output>>

\* loop body: due, sendSlackDM rejects; the inner catch logs
NagSendFailStillUpdates ==
    /\ pc = "loop"
    /\ Decide.should
    /\ Decided
    /\ sendFailed' = sendFailed \cup {cur}
    /\ store' = PagesUpdate(store, cur,
                    NagStatusProps(getNextPerson(NumberOr0(ev.nagCount)),
                                   NumberOr0(ev.nagCount) + 1, now))
    /\ Advance
    /\ UNCHANGED <<now, events, snap, sent, lastMsg, syncFailed, calendar,
                   edited, input, output>>

NagSendFail ==
    /\ pc = "loop"
    /\ Decide.should
    /\ Decided
    /\ sendFailed' = sendFailed \cup {cur}
    /\ Advance
    /\ UNCHANGED <<store, now, events, snap, sent, lastMsg, syncFailed, calendar,
                   edited, input, output>>

NagSentRereads ==
    /\ pc = "loop"
    /\ Decide.should
    /\ sent[cur] < MaxSent
    /\ Decided
    /\ LET nagCount == NumberOr0(store[cur].nagCount)
           person == getNextPerson(nagCount)
       IN /\ lastMsg' = [lastMsg EXCEPT ![cur] = buildNagMessage(ev, person)]
          /\ sent' = [sent EXCEPT ![cur] = @ + 1]
          /\ store' = PagesUpdate(store, cur,
                                  NagStatusProps(person, nagCount + 1, now))
    /\ Advance
    /\ UNCHANGED <<now, events, snap, sendFailed, syncFailed, calendar,
                   edited, input, output>>

\* loop body: due, the message is delivered and updateNagStatus succeeds
NagSent ==
    /\ pc = "loop"
    /\ Decide.should
    /\ sent[cur] < MaxSent
    /\ Decided
    /\ LET nagCount == NumberOr0(ev.nagCount)
           person == getNextPerson(nagCount)
       IN /\ lastMsg' = [lastMsg EXCEPT ![cur] = buildNagMessage(ev, person)]
          /\ sent' = [sent EXCEPT ![cur] = @ + 1]
          /\ store' = PagesUpdate(store, cur,
                                  NagStatusProps(person, nagCount + 1, now))
    /\ Advance
    /\ UNCHANGED <<now, events, snap, sendFailed, syncFailed, calendar,
                   edited, input, output>>

\* loop body: due, the message is delivered, updateNagStatus throws; the
\* inner catch logs
NagSentUpdateFail ==
    /\ pc = "loop"
    /\ Decide.should
    /\ sent[cur] < MaxSent
    /\ Decided
    /\ LET nagCount == NumberOr0(ev.nagCount)
           person == getNextPerson(nagCount)
       IN /\ lastMsg' = [lastMsg EXCEPT ![cur] = buildNagMessage(ev, person)]
          /\ sent' = [sent EXCEPT ![cur] = @ + 1]
    /\ Advance
    /\ UNCHANGED <<store, now, events, snap, sendFailed, syncFailed, calendar,
                   edited, input, output>>

Next ==
    \/ Tick
    \/ NagQuery
    \/ NagQueryFail
    \/ NagSkip
    \/ NagGiveUp
    \/ NagGiveUpFail
    \/ NagSendFail
    \/ NagSent
    \/ NagSentUpdateFail

Spec == Init /\ [][Next]_vars

\* ------------------------------------------- nag orchestrator and an editor

\* the nag_count a human editor types into the database
EditorCounts == {3}

\* the second record is a fresh one, never nagged
EditPeers == {r \in NagPeers : r.nagStatus = "" /\ r.nagCount = <<0>>}

InitEdit ==
    /\ store \in {[r \in Recs |-> IF r = "e1" THEN a ELSE b] :
                      a \in NagPeers, b \in EditPeers}
    /\ snap = store
    /\ HistoryInit

\* the database is shared: between the query and the write for record r
\* (main awaits inside the loop) an editor fills in the missing fields
EditComplete(r) ==
    /\ pc = "loop"
    /\ \E i \in 1..Len(events) : events[i] = r
    /\ r \notin processed \cup edited
    /\ store' = PagesUpdate(store, r, [start |-> "datetime",
                                       location |-> "hall",
                                       description |-> "text",
                                       lastEdited |-> <<now>>])
    /\ edited' = edited \cup {r}
    /\ UNCHANGED <<now, pc, events, snap, idx, sent, lastMsg, decision,
                   sendFailed, syncFailed, processed, calendar, input, output>>

\* ... or changes its nag_count
EditCount(r, n) ==
    /\ pc = "loop"
    /\ \E i \in 1..Len(events) : events[i] = r
    /\ r \notin processed \cup edited
    /\ store[r].nagCount # <<n>>
    /\ store' = PagesUpdate(store, r, [nagCount |-> <<n>>,
                                       lastEdited |-> <<now>>])
    /\ edited' = edited \cup {r}
    /\ UNCHANGED <<now, pc, events, snap, idx, sent, lastMsg, decision,
                   sendFailed, syncFailed, processed, calendar, input, output>>

NextEdit ==
    \/ Next
    \/ \E r \in Recs : EditComplete(r)
    \/ \E r \in Recs, n \in EditorCounts : EditCount(r, n)

SpecEdit == InitEdit /\ [][NextEdit]_vars

\* ------------------------------------- nag orchestrator, run to the give-up

\* a record that was never nagged and stays Scheduled and incomplete
LiveRecords ==
    {r \in NagRecords : /\ r.status = "Scheduled"
                        /\ r.nagStatus = ""
                        /\ NumberOr0(r.nagCount) = 0
                        /\ r.lastNagged = <<>>
                        /\ r.lastEdited = <<0>>}

\* the other record is not Scheduled, the query never returns it
Bystanders ==
    {r \in NagRecords : /\ r.status = "Approved"
                        /\ r.nagStatus = ""
                        /\ r.nagCount = <<0>>
                        /\ r.lastNagged = <<>>
                        /\ r.lastEdited = <<0>>
                        /\ r.start = "date"
                        /\ r.location = "hall"}

InitLive ==
    /\ store \in {[r \in Recs |-> IF r = "e1" THEN a ELSE b] :
                      a \in LiveRecords, b \in Bystanders}
    /\ snap = store
    /\ HistoryInit

\* time passes between invocations
LiveTick ==
    /\ pc # "loop"
    /\ now < LiveTicks * TickMs
    /\ now' = now + TickMs
    /\ UNCHANGED <<store, pc, events, snap, idx, sent, lastMsg, decision,
                   sendFailed, syncFailed, processed, calendar,
                   edited, input, output>>

\* loop body: due, the message is delivered and updateNagStatus succeeds
LiveNagSent ==
    /\ pc = "loop"
    /\ Decide.should
    /\ sent[cur] < LiveSent
    /\ Decided
    /\ LET nagCount == NumberOr0(ev.nagCount)
           person == getNextPerson(nagCount)
       IN /\ lastMsg' = [lastMsg EXCEPT ![cur] = buildNagMessage(ev, person)]
          /\ sent' = [sent EXCEPT ![cur] = @ + 1]
          /\ store' = PagesUpdate(store, cur,
                                  NagStatusProps(person, nagCount + 1, now))
    /\ Advance
    /\ UNCHANGED <<now, events, snap, sendFailed, syncFailed, calendar,
                   edited, input, output>>

\* loop body: due, the message is delivered, updateNagStatus throws; the
\* inner catch logs
LiveNagSentUpdateFail ==
    /\ pc = "loop"
    /\ Decide.should
    /\ sent[cur] < LiveSent
    /\ Decided
    /\ LET nagCount == NumberOr0(ev.nagCount)
           person == getNextPerson(nagCount)
       IN /\ lastMsg' = [lastMsg EXCEPT ![cur] = buildNagMessage(ev, person)]
          /\ sent' = [sent EXCEPT ![cur] = @ + 1]
    /\ Advance
    /\ UNCHANGED <<store, now, events, snap, sendFailed, syncFailed, calendar,
                   edited, input, output>>

NextLive ==
    \/ LiveTick
    \/ NagQuery
    \/ NagQueryFail
    \/ NagSkip
    \/ NagGiveUp
    \/ NagGiveUpFail
    \/ NagSendFail
    \/ LiveNagSent
    \/ LiveNagSentUpdateFail

SpecLive == InitLive /\ [][NextLive]_vars

\* ----------------------------------------------------------- calendar sync

\* records the sync script may find in the store
SyncRecords ==
    [status : {"Approved", "Scheduled"},
     nagStatus : {""},
     nagCount : {<<>>},
     lastNagged : {<<>>},
     lastEdited : {<<0>>},
     start : {"none", "date", "datetime"},
     location : {"absent", "hall"},
     description : {"text"},
     askedWho : {""},
     calendarId : {<<>>},
     notes : {""}]

InitSync ==
    /\ store \in [Recs -> SyncRecords]
    /\ snap = store
    /\ HistoryInit

\* the filter of queryApprovedEvents
IsApproved(event) == event.status = "Approved"

\* createCalendarEvent: the shape of the event it inserts
EventShape(event) == IF hasTime(event) THEN "timed" ELSE "allDay"

\* the properties updateNotionEvent writes
SyncedProps(calendarEventId) ==
    [calendarId |-> <<calendarEventId>>,
     status |-> "Scheduled",
     notes |-> "Synced to calendar"]

\* the properties the catch block of the loop writes
ErrorProps == [notes |-> "Error syncing"]

\* main: queryApprovedEvents succeeds
SyncQuery ==
    /\ pc # "loop"
    /\ \E order \in Orderings({r \in Recs : IsApproved(store[r])}) :
          /\ events' = order
          /\ pc' = IF order = <<>> THEN "done" ELSE "loop"
    /\ snap' = store
    /\ idx' = 1
    /\ syncFailed' = {}
    /\ processed' = {}
    /\ UNCHANGED <<store, now, sent, lastMsg, decision, sendFailed, calendar,
                   edited, input, output>>

\* main: the query throws, the outer catch exits
SyncQueryFail ==
    /\ pc # "loop"
    /\ events' = <<>>
    /\ pc' = "aborted"
    /\ snap' = store
    /\ idx' = 1
    /\ syncFailed' = {}
    /\ processed' = {}
    /\ UNCHANGED <<store, now, sent, lastMsg, decision, sendFailed, calendar,
                   edited, input, output>>

\* the catch block: the error-note update, which is itself not guarded
SyncCatch(noteOk) ==
    /\ syncFailed' = syncFailed \cup {cur}
    /\ IF noteOk
       THEN /\ store' = PagesUpdate(store, cur, ErrorProps)
            /\ Advance
       ELSE /\ store' = store
            /\ Abort

\* loop body: createCalendarEvent throws 'Date & Time is required'
SyncInputError(noteOk) ==
    /\ pc = "loop"
    /\ ev.start = "none"
    /\ SyncCatch(noteOk)
    /\ UNCHANGED <<now, events, snap, sent, lastMsg, decision, sendFailed,
                   calendar,
                   edited, input, output>>

\* loop body: calendar.events.insert throws
SyncInsertFail(noteOk) ==
    /\ pc = "loop"
    /\ ev.start # "none"
    /\ SyncCatch(noteOk)
    /\ UNCHANGED <<now, events, snap, sent, lastMsg, decision, sendFailed,
                   calendar,
                   edited, input, output>>

\* loop body: the entry is created and updateNotionEvent succeeds
SyncCreated ==
    /\ pc = "loop"
    /\ ev.start # "none"
    /\ Len(calendar) < MaxCal
    /\ calendar' = Append(calendar, [page |-> cur, shape |-> EventShape(ev)])
    /\ store' = PagesUpdate(store, cur, SyncedProps(Len(calendar) + 1))
    /\ Advance
    /\ UNCHANGED <<now, events, snap, sent, lastMsg, decision, sendFailed,
                   syncFailed,
                   edited, input, output>>

SyncWriteBackFailMarksScheduled(noteOk) ==
    /\ pc = "loop"
    /\ ev.start # "none"
    /\ Len(calendar) < MaxCal
    /\ calendar' = Append(calendar, [page |-> cur, shape |-> EventShape(ev)])
    /\ syncFailed' = syncFailed \cup {cur}
    /\ store' = PagesUpdate(store, cur,
                    [notes |-> "Error syncing", status |-> "Scheduled"])
    /\ Advance
    /\ UNCHANGED <<now, events, snap, sent, lastMsg, decision, sendFailed,
                   edited, input, output>>

\* loop body: the entry is created, updateNotionEvent throws
SyncWriteBackFail(noteOk) ==
    /\ pc = "loop"
    /\ ev.start # "none"
    /\ Len(calendar) < MaxCal
    /\ calendar' = Append(calendar, [page |-> cur, shape |-> EventShape(ev)])
    /\ SyncCatch(noteOk)
    /\ UNCHANGED <<now, events, snap, sent, lastMsg, decision, sendFailed,
                   edited, input, output>>

NextSync ==
    \/ SyncQuery
    \/ SyncQueryFail
    \/ \E noteOk \in BOOLEAN : SyncInputError(noteOk)
    \/ \E noteOk \in BOOLEAN : SyncInsertFail(noteOk)
    \/ SyncCreated
    \/ \E noteOk \in BOOLEAN : SyncWriteBackFail(noteOk)

SpecSync == InitSync /\ [][NextSync]_vars

\* ------------------------------------------------- calendar dates (Date)

\* a date-only string 'YYYY-MM-DD' is [y, m, d]; hours count from the epoch
Years == 2023..2025
EpochYear == 2022 + 1

IsLeap(y) == (y % 4 = 0 /\ y % 100 # 0) \/ y % 400 = 0

DaysInMonth(y, m) ==
    IF m = 2 THEN (IF IsLeap(y) THEN 29 ELSE 28)
    ELSE IF m \in {4, 6, 9, 11} THEN 30 ELSE 31

RECURSIVE DaysBeforeMonth(_, _)
DaysBeforeMonth(y, m) ==
    IF m = 1 THEN 0 ELSE DaysBeforeMonth(y, m - 1) + DaysInMonth(y, m - 1)

RECURSIVE DaysBeforeYear(_)
DaysBeforeYear(y) ==
    IF y = EpochYear THEN 0
    ELSE DaysBeforeYear(y - 1) + (IF IsLeap(y - 1) THEN 366 ELSE 365)

\* days from the first day of the epoch year to the date
DayNumber(date) ==
    DaysBeforeYear(date.y) + DaysBeforeMonth(date.y, date.m) + (date.d - 1)

\* the date of a day number (the inverse of DayNumber)
DateOfDay(n) ==
    LET y == CHOOSE yy \in Years :
                 DaysBeforeYear(yy) <= n /\ n < DaysBeforeYear(yy + 1)
        k == n - DaysBeforeYear(y)
        m == CHOOSE mm \in 1..12 :
                 /\ DaysBeforeMonth(y, mm) <= k
                 /\ k < DaysBeforeMonth(y, mm) + DaysInMonth(y, mm)
    IN [y |-> y, m |-> m, d |-> k - DaysBeforeMonth(y, m) + 1]

\* the time zones the process may run in: new Date() works in the zone of
\* the environment; the script sets none
Zones == {"UTC", "America/Los_Angeles"}

\* America/Los_Angeles in 2024: daylight time from 2024-03-10 10:00Z
\* (02:00 PST) to 2024-11-03 09:00Z (02:00 PDT)
DstStartUtc == DayNumber([y |-> 2024, m |-> 3, d |-> 10]) * 24 + 10
DstEndUtc == DayNumber([y |-> 2024, m |-> 11, d |-> 3]) * 24 + 9

\* LocalTZA(t, true): the offset in hours of local time at the UTC hour t
OffsetAtUtc(zone, t) ==
    IF zone = "UTC" THEN 0
    ELSE IF DstStartUtc <= t /\ t < DstEndUtc THEN 0 - 7 ELSE 0 - 8

\* LocalTZA(w, false): the offset in hours at the local wall-clock hour w
OffsetAtLocal(zone, w) ==
    IF zone = "UTC" THEN 0
    ELSE IF DstStartUtc - 7 <= w /\ w < DstEndUtc - 7 THEN 0 - 7 ELSE 0 - 8

\* const nextDay = new Date(start); nextDay.setDate(nextDay.getDate() + 1);
\* nextDay.toISOString().split('T')[0]
\* new Date('YYYY-MM-DD') is midnight UTC; getDate/setDate work in local
\* time and keep the local time of day; toISOString is UTC again
NextDayIso(date, zone) ==
    LET t == DayNumber(date) * 24
        local == t + OffsetAtUtc(zone, t)
        wall == ((local \div 24) + 1) * 24 + (local % 24)
        utc == wall - OffsetAtLocal(zone, wall)
    IN DateOfDay(utc \div 24)

\* createCalendarEvent: the start and end of the event it builds from
\* properties['Date & Time'].date, or the error it throws
calendarEvent(dateInfo, zone) ==
    IF dateInfo = <<>> \/ dateInfo[1].start = <<>>
    THEN [error |-> "Date & Time is required"]
    ELSE LET start == dateInfo[1].start[1]
             end == dateInfo[1].end
         IN IF start.hasT
            THEN [shape |-> "timed",
                  start |-> start,
                  end |-> IF end # <<>> THEN end[1] ELSE start]
            ELSE [shape |-> "allDay",
                  start |-> start.date,
                  end |-> IF end # <<>> THEN end[1].date
                          ELSE NextDayIso(start.date, zone)]

\* ------------------------------------------- the pure functions, applied

\* every day of 2024, the year end and the leap day included
Dates ==
    UNION {{[y |-> 2024, m |-> m, d |-> d] : d \in 1..DaysInMonth(2024, m)} :
              m \in 1..12}

\* the end of a page's date range, when it has one
EndDate == [y |-> 2024, m |-> 12, d |-> 31]

DateInfos ==
    {<<>>}
    \cup {<<[start |-> <<>>, end |-> <<>>]>>}
    \cup {<<[start |-> <<[date |-> a, hasT |-> t]>>,
             end |-> IF withEnd THEN <<[date |-> EndDate, hasT |-> t]>>
                     ELSE <<>>]>> :
             a \in Dates, t \in BOOLEAN, withEnd \in BOOLEAN}

FieldRecords ==
    [start : {"none", "date", "datetime"},
     location : {"absent", "", "hall"},
     description : {"absent", "", "text"}]

PureInputs ==
    [fn : {"createCalendarEvent"}, dateInfo : DateInfos, zone : Zones]
    \cup [fn : {"getMissingFields"}, event : FieldRecords]

InitPure ==
    /\ store = [r \in Recs |-> CHOOSE rec \in NagPeers : TRUE]
    /\ snap = store
    /\ now = TickMs
    /\ pc = "idle"
    /\ events = <<>>
    /\ idx = 1
    /\ sent = [r \in Recs |-> 0]
    /\ lastMsg = [r \in Recs |-> NoMsg]
    /\ decision = [r \in Recs |-> NoDecision]
    /\ sendFailed = {}
    /\ syncFailed = {}
    /\ processed = {}
    /\ calendar = <<>>
    /\ edited = {}
    /\ input \in {<<i>> : i \in PureInputs}
    /\ output = <<>>

\* createCalendarEvent builds the event of a page
ApplyCreateCalendarEvent ==
    /\ output = <<>>
    /\ input[1].fn = "createCalendarEvent"
    /\ output' = <<calendarEvent(input[1].dateInfo, input[1].zone)>>
    /\ UNCHANGED <<store, now, pc, events, snap, idx, sent, lastMsg, decision,
                   sendFailed, syncFailed, processed, calendar, edited, input>>

\* getMissingFields and isMissingInfo look at a record
ApplyGetMissingFields ==
    /\ output = <<>>
    /\ input[1].fn = "getMissingFields"
    /\ output' = <<[missing |-> getMissingFields(input[1].event),
                    isMissing |-> isMissingInfo(input[1].event)]>>
    /\ UNCHANGED <<store, now, pc, events, snap, idx, sent, lastMsg, decision,
                   sendFailed, syncFailed, processed, calendar, edited, input>>

NextPure ==
    \/ ApplyCreateCalendarEvent
    \/ ApplyGetMissingFields

SpecPure == InitPure /\ [][NextPure]_vars

\* ------------------------------------------- the two authentication modes

\* createCalendarEvent of the delegated-identity script: the event it
\* passes to calendar.events.insert; startTime and endTime are read with
\* optional chaining and used as dateTime whatever they are
calendarEventDelegated(dateInfo) ==
    LET startTime == IF dateInfo = <<>> THEN <<>> ELSE dateInfo[1].start
        endTime == IF dateInfo = <<>> THEN <<>> ELSE dateInfo[1].end
        endOrStart == IF endTime # <<>> THEN endTime ELSE startTime
    IN [shape |-> "timed",
        start |-> IF startTime = <<>> THEN "undefined" ELSE startTime[1],
        end |-> IF endOrStart = <<>> THEN "undefined" ELSE endOrStart[1]]

ModeInputs == [fn : {"bothModes"}, dateInfo : DateInfos, zone : Zones]

InitModes ==
    /\ store = [r \in Recs |-> CHOOSE rec \in NagPeers : TRUE]
    /\ snap = store
    /\ now = TickMs
    /\ pc = "idle"
    /\ events = <<>>
    /\ idx = 1
    /\ sent = [r \in Recs |-> 0]
    /\ lastMsg = [r \in Recs |-> NoMsg]
    /\ decision = [r \in Recs |-> NoDecision]
    /\ sendFailed = {}
    /\ syncFailed = {}
    /\ processed = {}
    /\ calendar = <<>>
    /\ edited = {}
    /\ input \in {<<i>> : i \in ModeInputs}
    /\ output = <<>>

\* both scripts build the event of the same page
ApplyBothModes ==
    /\ output = <<>>
    /\ input[1].fn = "bothModes"
    /\ output' = <<[service |-> calendarEvent(input[1].dateInfo,
                                               input[1].zone),
                    delegated |-> calendarEventDelegated(input[1].dateInfo)]>>
    /\ UNCHANGED <<store, now, pc, events, snap, idx, sent, lastMsg, decision,
                   sendFailed, syncFailed, processed, calendar, edited, input>>

NextModes == ApplyBothModes

SpecModes == InitModes /\ [][NextModes]_vars

\* ==================================================================== claims

Range(seq) == {seq[i] : i \in 1..Len(seq)}
PassEnded == pc \in {"done", "aborted"}
\* the call that threw and ended the pass was made for record r
ThrewFor(r) == pc = "aborted" /\ events # <<>> /\ events[idx] = r

\* C1: a record whose nag_count is 5 or more is never due (max_attempts),
\* and the invocation in which it is a candidate leaves it "Gave Up" (unless
\* the "Gave Up" update of that very record is the call that threw).
C1_GaveUpInFirstPass ==
    \A r \in Range(events) :
        NumberOr0(snap[r].nagCount) >= MaxAttempts =>
            /\ r \in processed =>
                    ~decision[r].should /\ decision[r].reason = "max_attempts"
            /\ (PassEnded /\ ~ThrewFor(r)) => store[r].nagStatus = "Gave Up"

\* C2: in every step the stored nag_count of every record grows by exactly
\* the number of messages delivered for it in that step.
C2_CountTracksSends ==
    [][\A r \in Recs :
          NumberOr0(store'[r].nagCount)
              = NumberOr0(store[r].nagCount) + (sent'[r] - sent[r])]_vars

\* C3: a record whose send failed in this pass is stored exactly as the
\* query returned it, so it is still a candidate and still due.
C3_SendFailureNoUpdate ==
    \A r \in sendFailed :
        /\ store[r] = snap[r]
        /\ store[r].status = "Scheduled"
        /\ store[r].nagStatus \in {"", "Pending"}
        /\ shouldNagNow(store[r], now).should

C3_Witness ==
    \E r \in sendFailed :
        /\ pc = "done"
        /\ Len(events) = 2
        /\ \E q \in Recs \ {r} : store[q] # snap[q]

\* C4: when a pass has ended, every record of its query result was
\* processed.
C4_BatchNeverAborted ==
    PassEnded => \A r \in Range(events) : r \in processed

EntriesOf(r) == {i \in 1..Len(calendar) : calendar[i].page = r}

\* C5: a record's status changes only from Approved to Scheduled, and only
\* in the update that stores the identifier of the entry just created for
\* it; a record whose create or write-back failed in this pass is still
\* Approved (a candidate of the next pass) and, unless the error-note
\* update itself threw, carries the "Error syncing" note.
C5_ScheduledOnlyWithCalendarId ==
    /\ [](\A r \in syncFailed :
            /\ store[r].status = "Approved"
            /\ store[r].calendarId = <<>>
            /\ ~ThrewFor(r) => store[r].notes = "Error syncing")
    /\ [][\A r \in Recs :
            store'[r].status # store[r].status =>
                /\ store[r].status = "Approved"
                /\ store'[r].status = "Scheduled"
                /\ Len(calendar') = Len(calendar) + 1
                /\ calendar'[Len(calendar')].page = r
                /\ store'[r].calendarId = <<Len(calendar')>>]_vars

C5_Witness ==
    \E r \in syncFailed, q \in Recs :
        /\ EntriesOf(r) # {}
        /\ store[r].status = "Approved"
        /\ store[r].notes = "Error syncing"
        /\ store[q].status = "Scheduled"
        /\ store[q].calendarId # <<>>
        /\ EntriesOf(q) # {}

\* C6: no record ever has more than one calendar entry created for it.
C6_OneEntryPerRecord ==
    \A r \in Recs : Cardinality(EntriesOf(r)) <= 1

Incomplete(event) ==
    \/ event.start # "datetime"
    \/ event.location \in {"absent", ""}
    \/ event.description \in {"absent", ""}

\* C7: a message is delivered for a record, or the record is written, only
\* while the loop is at that record of the query result, and the record is
\* Scheduled, has nag_status empty or Pending and misses a field, in the
\* query result and in the store.
C7_OnlyCandidatesTouched ==
    [][\A r \in Recs :
          (sent'[r] # sent[r] \/ store'[r] # store[r]) =>
              /\ pc = "loop" /\ events[idx] = r
              /\ \A rec \in {snap[r], store[r]} :
                    /\ rec.status = "Scheduled"
                    /\ rec.nagStatus \in {"", "Pending"}
                    /\ Incomplete(rec)]_vars

C7_Witness ==
    \E r \in Recs, q \in Recs :
        /\ pc = "done"
        /\ sent[r] > 0 /\ store[r] # snap[r]
        /\ sent[q] = 0 /\ store[q] = snap[q]
        /\ ~Incomplete(store[q])
        /\ store[q].status = "Scheduled" /\ store[q].nagStatus = "Pending"

\* C8 as stated: with nag_count 0 the record is due iff at least one hour
\* has passed since last_edited.
C8_DueAtOneHour ==
    \A r \in processed \cap Range(events) :
        (NumberOr0(snap[r].nagCount) = 0 /\ snap[r].lastEdited # <<>>) =>
            (decision[r].should
                <=> decision[r].at - snap[r].lastEdited[1] >= OneHourMs)

\* C8 amended: with nag_count 0 the record is due (first_nag) iff more than
\* one hour has passed since last_edited, and otherwise not due (too_soon),
\* whatever last_nagged is; a last_edited value that is no date is never due.
C8_DueAfterOneHour ==
    \A r \in processed \cap Range(events) :
        NumberOr0(snap[r].nagCount) = 0 =>
            IF /\ snap[r].lastEdited # <<>>
               /\ decision[r].at - snap[r].lastEdited[1] > OneHourMs
            THEN decision[r].should /\ decision[r].reason = "first_nag"
            ELSE ~decision[r].should /\ decision[r].reason = "too_soon"

C8_Witness ==
    \E r \in processed \cap Range(events) :
        /\ NumberOr0(snap[r].nagCount) = 0
        /\ snap[r].lastNagged # <<>>
        /\ snap[r].lastEdited # <<>>
        /\ decision[r].at - snap[r].lastEdited[1] = OneHourMs
        /\ ~decision[r].should

FollowUp(event) ==
    /\ NumberOr0(event.nagCount) \in 1..(MaxAttempts - 1)
    /\ event.lastNagged # <<>>

\* C9 as stated: with 1 <= nag_count <= 4 and last_nagged set the record is
\* due iff at least two hours have passed since last_nagged.
C9_DueAtTwoHours ==
    \A r \in processed \cap Range(events) :
        FollowUp(snap[r]) =>
            (decision[r].should
                <=> decision[r].at - snap[r].lastNagged[1] >= TwoHoursMs)

\* C9 amended: with 1 <= nag_count <= 4 and last_nagged set the record is
\* due (follow_up) iff more than two hours have passed since last_nagged,
\* and otherwise not due (too_soon), whatever last_edited is.
C9_DueAfterTwoHours ==
    \A r \in processed \cap Range(events) :
        FollowUp(snap[r]) =>
            IF decision[r].at - snap[r].lastNagged[1] > TwoHoursMs
            THEN decision[r].should /\ decision[r].reason = "follow_up"
            ELSE ~decision[r].should /\ decision[r].reason = "too_soon"

C9_Witness ==
    \E r \in processed \cap Range(events) :
        /\ FollowUp(snap[r])
        /\ decision[r].at - snap[r].lastNagged[1] = TwoHoursMs
        /\ snap[r].lastEdited # <<>>
        /\ decision[r].at - snap[r].lastEdited[1] < TwoHoursMs
        /\ ~decision[r].should

PersonAt(n) ==
    CASE n % 3 = 0 -> "winter"
      [] n % 3 = 1 -> "summer"
      [] n % 3 = 2 -> "rav"

\* C10: every message delivered for a record goes to winter, summer or rav
\* as the nag_count read by the query is 0, 1 or 2 mod 3, and the update
\* that follows stores that person with nag_count + 1.
C10_RotationByCount ==
    [][\A r \in Recs :
          sent'[r] # sent[r] =>
              /\ lastMsg'[r].to = PersonAt(NumberOr0(snap[r].nagCount))
              /\ store'[r] # store[r] =>
                    /\ store'[r].askedWho = lastMsg'[r].to
                    /\ store'[r].nagCount
                           = <<NumberOr0(store[r].nagCount) + 1>>]_vars

C10_Witness ==
    \E r \in Recs :
        /\ sent[r] > 0
        /\ lastMsg[r].to = "summer"
        /\ lastMsg[r].attempt = MaxAttempts
        /\ store[r].askedWho = "summer"
        /\ store[r].nagCount = <<MaxAttempts>>

\* the query returned r as updateNagStatus left it at the time of this pass
JustNagged(r) ==
    /\ r \in processed \cap Range(events)
    /\ snap[r].lastNagged = <<decision[r].at>>
    /\ snap[r].nagStatus = "Pending"
    /\ snap[r].nagCount # <<>>

\* C11 as stated: a pass run immediately after a successful nag finds the
\* record not due (too_soon) and leaves it as it is, whatever its nag_count.
C11_RerunTooSoon ==
    \A r \in Recs :
        JustNagged(r) =>
            /\ ~decision[r].should
            /\ decision[r].reason = "too_soon"
            /\ store[r] = snap[r]

\* C11 amended: a pass run immediately after a successful nag sends nothing
\* for the record; with the new nag_count below 5 it is too_soon and the
\* record is left as it is; with the new nag_count 5 it is max_attempts and
\* the only write is nag_status = "Gave Up".
C11_RerunTooSoonOrGaveUp ==
    \A r \in Recs :
        JustNagged(r) =>
            /\ ~decision[r].should
            /\ r \notin sendFailed
            /\ IF snap[r].nagCount[1] < MaxAttempts
               THEN decision[r].reason = "too_soon" /\ store[r] = snap[r]
               ELSE /\ decision[r].reason = "max_attempts"
                    /\ \/ store[r] = [snap[r] EXCEPT !.nagStatus = "Gave Up"]
                       \/ ThrewFor(r) /\ store[r] = snap[r]

C11_Witness ==
    \E r \in Recs, q \in Recs :
        /\ JustNagged(r) /\ snap[r].nagCount[1] = 1
        /\ decision[r].reason = "too_soon"
        /\ JustNagged(q) /\ snap[q].nagCount[1] = MaxAttempts
        /\ store[q].nagStatus = "Gave Up"

\* D + 1 calendar day
DayAfter(date) ==
    IF date.d < DaysInMonth(date.y, date.m)
    THEN [date EXCEPT !.d = date.d + 1]
    ELSE IF date.m < 12
    THEN [date EXCEPT !.m = date.m + 1, !.d = 1]
    ELSE [y |-> date.y + 1, m |-> 1, d |-> 1]

AllDayCase ==
    /\ output # <<>>
    /\ input[1].fn = "createCalendarEvent"
    /\ input[1].dateInfo # <<>>
    /\ input[1].dateInfo[1].start # <<>>
    /\ ~input[1].dateInfo[1].start[1].hasT

\* C12: for a date-only start D the event is all-day with start.date = D;
\* its end.date is D + 1 day when the page has no end, and the page's end
\* date when it has one.
C12_AllDayEndIsNextDay ==
    AllDayCase =>
        LET info == input[1].dateInfo[1]
            D == info.start[1].date
        IN /\ output[1].shape = "allDay"
           /\ output[1].start = D
           /\ output[1].end = IF info.end = <<>> THEN DayAfter(D)
                               ELSE info.end[1].date

\* C13: an approved record without a start gets no calendar entry, stays
\* Approved without a calendar identifier, carries the error note (unless
\* the error-note update itself threw), and the pass still processes every
\* other record of the query result.
C13_MissingStartSkipped ==
    \A r \in syncFailed :
        snap[r].start = "none" =>
            /\ EntriesOf(r) = {}
            /\ store[r].status = "Approved"
            /\ store[r].calendarId = <<>>
            /\ ~ThrewFor(r) => store[r].notes = "Error syncing"
            /\ PassEnded => \A q \in Range(events) : q \in processed

FieldsCase == output # <<>> /\ input[1].fn = "getMissingFields"

\* C14: getMissingFields names each absent field once and no other: time
\* when the start is absent or date-only, location and description when
\* their text is absent or empty; isMissingInfo is true iff that list is
\* not empty.
C14_MissingFieldsExact ==
    FieldsCase =>
        LET e == input[1].event
            missing == output[1].missing
            expected ==
                {f \in {"time"} : e.start \in {"none", "date"}}
                \cup {f \in {"location"} : e.location \in {"absent", ""}}
                \cup {f \in {"description"} : e.description \in {"absent", ""}}
        IN /\ Range(missing) = expected
           /\ Len(missing) = Cardinality(expected)
           /\ output[1].isMissing <=> expected # {}

C14_Witness ==
    /\ FieldsCase
    /\ input[1].event = [start |-> "date", location |-> "",
                         description |-> "text"]
    /\ output[1].missing = <<"time", "location">>
    /\ output[1].isMissing

AtRecord(r) == pc = "loop" /\ events[idx] = r

\* C15: while the loop is at a record whose queried nag_count is 5 or
\* more, no message is delivered and the only possible write is
\* nag_status = "Gave Up"; a record that is "Gave Up" is never written or
\* nagged again.
C15_GiveUpIsTerminal ==
    /\ [][\A r \in Recs :
            (AtRecord(r) /\ NumberOr0(snap[r].nagCount) >= MaxAttempts) =>
                /\ sent' = sent
                /\ \/ store' = store
                   \/ store' = [store EXCEPT ![r].nagStatus = "Gave Up"]]_vars
    /\ [][\A r \in Recs :
            store[r].nagStatus = "Gave Up" =>
                store'[r] = store[r] /\ sent'[r] = sent[r]]_vars

C15_Witness ==
    \E r \in Recs :
        /\ store[r].nagStatus = "Gave Up"
        /\ store[r].nagCount = <<MaxAttempts>>
        /\ sent[r] > 0
        /\ store[r].askedWho # ""
        /\ pc = "done"
        /\ r \notin Range(events)

\* C16: a record found not due (too_soon) is left exactly as the query
\* returned it, and the step that finds it so delivers no message and
\* writes nothing.
C16_NotDueNoEffect ==
    /\ [](\A r \in processed \cap Range(events) :
            decision[r].reason = "too_soon" => store[r] = snap[r])
    /\ [][\A r \in Recs :
            (decision'[r] # decision[r] /\ decision'[r].reason = "too_soon") =>
                sent' = sent /\ lastMsg' = lastMsg /\ store' = store]_vars

C16_Witness ==
    \E r \in processed \cap Range(events) :
        /\ decision[r].reason = "too_soon"
        /\ snap[r].nagStatus = ""
        /\ pc = "done"
        /\ \E q \in Recs \ {r} : store[q] # snap[q]

FailOpen(event) ==
    /\ NumberOr0(event.nagCount) \in 1..(MaxAttempts - 1)
    /\ event.lastNagged = <<>>

\* C17: a record with 1 <= nag_count <= 4 and no last_nagged is due
\* (unknown_state) at every time and whatever last_edited is; last_nagged
\* is set only by the update that follows a delivered message.
C17_FailOpen ==
    \A r \in processed \cap Range(events) :
        FailOpen(snap[r]) =>
            /\ decision[r].should
            /\ decision[r].reason = "unknown_state"
            /\ store[r].lastNagged # <<>> =>
                    store[r].lastNagged = <<decision[r].at>> /\ sent[r] > 0

C17_Witness ==
    \E r \in processed \cap Range(events) :
        /\ FailOpen(snap[r])
        /\ snap[r].lastEdited = <<decision[r].at>>
        /\ decision[r].should
        /\ store[r].lastNagged = <<>>
        /\ sent[r] = MaxSent

AlphaRank(f) ==
    CASE f = "description" -> 1
      [] f = "location" -> 2
      [] f = "time" -> 3

SortedAlpha(seq) ==
    \A i \in 1..Len(seq), j \in 1..Len(seq) :
        i < j => AlphaRank(seq[i]) <= AlphaRank(seq[j])

MissingSet(event) ==
    {f \in {"time"} : event.start # "datetime"}
    \cup {f \in {"location"} : event.location \in {"absent", ""}}
    \cup {f \in {"description"} : event.description \in {"absent", ""}}

FixedOrder(event) ==
    LET Missing(f) == f \in MissingSet(event)
    IN SelectSeq(<<"time", "location", "description">>, Missing)

\* C18 as stated: every message carries an attempt number between 1 and 5
\* and lists the missing fields in sorted order.
C18_SortedMissingList ==
    \A r \in Recs :
        sent[r] > 0 =>
            /\ lastMsg[r].attempt \in 1..MaxAttempts
            /\ SortedAlpha(lastMsg[r].missing)

\* C18 amended: every message delivered carries the attempt number queried
\* nag_count + 1, between 1 and 5, and lists exactly the missing fields of
\* the queried record in the order time, location, description.
C18_AttemptAndFixedOrder ==
    [][\A r \in Recs :
          sent'[r] # sent[r] =>
              /\ lastMsg'[r].attempt = NumberOr0(snap[r].nagCount) + 1
              /\ lastMsg'[r].attempt \in 1..MaxAttempts
              /\ lastMsg'[r].missing = FixedOrder(snap[r])]_vars

C18_Witness ==
    \E r \in Recs :
        /\ sent[r] > 0
        /\ lastMsg[r].attempt = MaxAttempts
        /\ lastMsg[r].missing = <<"time", "location">>

NaggedThisPass(r) ==
    /\ r \in processed
    /\ decision[r].should
    /\ r \notin sendFailed

\* C19: the message and the write for a record are computed from the
\* record as the query returned it, also when an editor changed the stored
\* record in between: the attempt number and the rotation use the queried
\* nag_count, the written nag_count is the queried nag_count + 1, and the
\* decision is the one the queried record calls for.
C19_WritesFromSnapshot ==
    [][\A r \in Recs :
          sent'[r] # sent[r] =>
              /\ lastMsg'[r].attempt = NumberOr0(snap[r].nagCount) + 1
              /\ lastMsg'[r].missing = FixedOrder(snap[r])
              /\ lastMsg'[r].to = PersonAt(NumberOr0(snap[r].nagCount))
              /\ \/ store'[r] = store[r]
                 \/ /\ store'[r].nagCount = <<NumberOr0(snap[r].nagCount) + 1>>
                    /\ store'[r].askedWho = lastMsg'[r].to]_vars

\* a pass in which one record was completed by the editor and nagged all
\* the same, and the editor's nag_count on another was overwritten
C19_Witness ==
    \E r \in edited : \E q \in edited \ {r} :
        /\ NaggedThisPass(r) /\ NaggedThisPass(q)
        /\ MissingSet(store[r]) = {}
        /\ MissingSet(snap[r]) # {}
        /\ MissingSet(store[q]) # {}
        /\ store[q].nagCount = <<NumberOr0(snap[q].nagCount) + 1>>
        /\ store[q].lastNagged = <<decision[q].at>>

\* C20: a record that starts un-nagged and stays Scheduled and incomplete
\* has had exactly 5 messages sent for it when it is "Gave Up".
C20_GaveUpAfterFiveMessages ==
    \A r \in Recs :
        store[r].nagStatus = "Gave Up" => sent[r] = MaxAttempts

SameEvent(a, b) ==
    /\ DOMAIN a = DOMAIN b
    /\ \/ "error" \in DOMAIN a
       \/ /\ a.shape = b.shape
          /\ a.start = b.start
          /\ a.end = b.end

\* C21: for every page, the service-account script and the
\* delegated-identity script build the same event (timed or all-day, start,
\* end), or both reject the page with an input error.
C21_ModesBuildSameEvent ==
    output # <<>> => SameEvent(output[1].service, output[1].delegated)

====
